---- MODULE Spec2Model ----
(***************************************************************************)
(* A model of the Tkinter AI GUI: the event-loop handlers of TkAIApp       *)
(* (gui.py), the decorators that wrap the Run handlers (decorators.py),    *)
(* the adapters (adapters.py), the remote client (1-GUI/hf_client.py) and  *)
(* the local client with its module-level model handles (hf_client.py).    *)
(*                                                                         *)
(* Text that the code strips (tokens, prompts) is a sequence of            *)
(* characters; messages the code only writes are TLA+ strings.             *)
(***************************************************************************)
EXTENDS Integers, Sequences, FiniteSets, TLC

\* ------------------------------------------------------------- bounds
\* Run clicks per behaviour (each starts one worker thread).
MaxRuns == 2
\* HFClient objects created per behaviour of the token specification.
MaxClients == 3
\* Calls into the local client per behaviour of the local specification.
MaxCalls == 4

\* ------------------------------------------------------------- values
\* Python's None where a sequence of characters is expected.
None == <<"<None>">>
NoImage == "None"
NoRes == [ok |-> TRUE, exc |-> "", val |-> ""]

Whitespace == {" ", "\t"}

RECURSIVE LStrip(_)
LStrip(s) ==
    IF s = <<>> THEN s
    ELSE IF Head(s) \in Whitespace THEN LStrip(Tail(s)) ELSE s

RECURSIVE RStrip(_)
RStrip(s) ==
    IF s = <<>> THEN s
    ELSE IF s[Len(s)] \in Whitespace THEN RStrip(SubSeq(s, 1, Len(s) - 1)) ELSE s

\* str.strip()
Strip(s) == RStrip(LStrip(s))

\* Python's `v or d` for a string (or None) v.
OrElse(v, d) == IF v = None \/ v = <<>> THEN d ELSE v

\* --------------------------------------------- remote client (1-GUI/hf_client.py)
\* A response of requests.post: its status code, its content-type header split
\* at "/" (<<>> when the header is missing) and its body.  status = 0 stands
\* for requests.post raising instead of returning (connection error, timeout).
Statuses == {200, 302, 403, 404, 503}
Ctypes == {<<"image", "png">>, <<"image">>, <<"application", "json">>, <<>>}
Bodies == {"png", "garbage", "json_error", "json_noerror", "json_emptyerror",
           "json_list", "json_emptylist"}
Responses == [status : Statuses, ctype : Ctypes, body : Bodies]
NetFail == [status |-> 0, ctype |-> <<>>, body |-> "garbage"]

GatedMsg == "403 Forbidden: model is gated or not available to your account/tier."
UnknownMsg == "Unknown error from the Inference API."

Ok(v) == [ok |-> TRUE, exc |-> "", val |-> v]
Raise(e, m) == [ok |-> FALSE, exc |-> e, val |-> m]

\* Response.raise_for_status(): raises HTTPError for 4xx and 5xx.
RaisesForStatus(st) == st >= 400 /\ st < 600
HTTPErrorMsg(st) ==
    ToString(st) \o (IF st < 500 THEN " Client Error" ELSE " Server Error")

\* Response.json(): the decoded body, or "not JSON" (json() raises).
IsJson(b) == b \in {"json_error", "json_noerror", "json_emptyerror",
                    "json_list", "json_emptylist"}
JsonOf(b) ==
    CASE b = "json_error" ->
           [type |-> "dict", error |-> "Model is loading", items |-> <<>>,
            str |-> "{'error': 'Model is loading'}"]
      [] b = "json_noerror" ->
           [type |-> "dict", error |-> "", items |-> <<>>,
            str |-> "{'estimated_time': 20}"]
      [] b = "json_emptyerror" ->
           [type |-> "dict", error |-> "", items |-> <<>>,
            str |-> "{'error': ''}"]
      [] b = "json_list" ->
           [type |-> "list", error |-> "",
            items |-> << [label |-> "dog", score |-> 100],
                         [label |-> "cat", score |-> 900] >>,
            str |-> "[{dog}, {cat}]"]
      [] OTHER ->
           [type |-> "list", error |-> "", items |-> <<>>, str |-> "[]"]

\* ctype.startswith("image/")
StartsWithImage(ct) == Len(ct) >= 2 /\ ct[1] = "image"

\* Image.open(io.BytesIO(content)) decodes only image bytes.
DecodesAsImage(b) == b = "png"

\* Mutant: the content-type test is dropped; any response that passes
\* raise_for_status is opened as an image.
TextToImage_NoCtypeTest(r) ==
    IF r.status = 0 THEN Raise("ConnectionError", "connection failed")
    ELSE IF r.status = 403 THEN Raise("RuntimeError", GatedMsg)
    ELSE IF RaisesForStatus(r.status) THEN Raise("HTTPError", HTTPErrorMsg(r.status))
    ELSE IF DecodesAsImage(r.body) THEN Ok("generated image")
    ELSE Raise("UnidentifiedImageError", "cannot identify image file")

\* HFClient.text_to_image: the image, or the exception it raises.
TextToImage(r) ==
    IF r.status = 0 THEN Raise("ConnectionError", "connection failed")
    ELSE IF r.status = 403 THEN Raise("RuntimeError", GatedMsg)
    ELSE IF RaisesForStatus(r.status) THEN Raise("HTTPError", HTTPErrorMsg(r.status))
    ELSE IF StartsWithImage(r.ctype) THEN
        IF DecodesAsImage(r.body) THEN Ok("generated image")
        ELSE Raise("UnidentifiedImageError", "cannot identify image file")
    ELSE LET err == IF IsJson(r.body) THEN JsonOf(r.body)
                    ELSE [type |-> "dict", error |-> UnknownMsg, items |-> <<>>,
                          str |-> "{'error': 'Unknown error from the Inference API.'}"]
         IN IF err.type # "dict"
            THEN Raise("AttributeError", "'list' object has no attribute 'get'")
            ELSE Raise("RuntimeError", IF err.error # "" THEN err.error ELSE err.str)

\* sorted(out, key=score, reverse=True): a stable insertion sort.
RECURSIVE InsertDesc(_, _)
InsertDesc(x, s) ==
    IF s = <<>> THEN <<x>>
    ELSE IF x.score >= Head(s).score THEN <<x>> \o s
    ELSE <<Head(s)>> \o InsertDesc(x, Tail(s))

RECURSIVE SortDesc(_)
SortDesc(s) ==
    IF s = <<>> THEN s
    ELSE InsertDesc(Head(s), SortDesc(Tail(s)))

TopK == 5

RECURSIVE Lines(_)
Lines(s) ==
    IF s = <<>> THEN ""
    ELSE "- " \o Head(s).label \o " (" \o ToString(Head(s).score) \o ")"
         \o (IF Tail(s) = <<>> THEN "" ELSE "\n" \o Lines(Tail(s)))

\* HFClient.image_classification: the label text, or the exception it raises.
ImageClassification(r) ==
    IF r.status = 0 THEN Raise("ConnectionError", "connection failed")
    ELSE IF RaisesForStatus(r.status) THEN Raise("HTTPError", HTTPErrorMsg(r.status))
    ELSE IF ~IsJson(r.body) THEN Raise("JSONDecodeError", "Expecting value")
    ELSE LET out == JsonOf(r.body)
         IN IF out.type = "list" /\ out.items # <<>>
            THEN LET sorted == SortDesc(out.items)
                     topk == SubSeq(sorted, 1, IF Len(sorted) < TopK THEN Len(sorted) ELSE TopK)
                 IN Ok("Top predictions:\n" \o Lines(topk))
            ELSE Ok(out.str)

\* ------------------------------------------------------- adapters (adapters.py)
\* TkAIApp.MODELS: the model id of each adapter.
ModelId(k) == IF k = 1 THEN "stabilityai/sdxl-turbo" ELSE "google/vit-base-patch16-224"

\* The attributes an adapter object has (BaseAdapter.__init__ and its methods).
AdapterAttrs == {"client", "info", "run", "info_text"}

\* require_token's condition on the object whose method it wraps:
\*   not getattr(self, "token", "") and hasattr(self, "_set_status")
\* attrs are the object's attributes, tok its token attribute when it has one.
RequireTokenWarns(attrs, tok) ==
    /\ ~("token" \in attrs /\ tok # <<>>)
    /\ "_set_status" \in attrs

NoTokenWarning == "Warning: no HF token set; request may be rate-limited or fail."

\* kwargs.get(key): None when the caller passed no such keyword.
\* TextToImageAdapter.run: prompt = (kwargs.get("prompt") or "").strip()
T2IPrompt(kw) == Strip(OrElse(kw, <<>>))
\* Mutant: the prompt is tested before it is stripped.
T2IValid_Unstripped(kw) == OrElse(kw, <<>>) # <<>>
T2IValid(kw) == T2IPrompt(kw) # <<>>
\* ImageClassificationAdapter.run: `not img_bytes` is true of None and of b"".
ClsValid(kw) == kw # None /\ kw # <<>>

\* The adapter's validation: the ValueError it raises, or NoRes to go on.
AdapterValidate(k, kw) ==
    IF k = 1
    THEN IF T2IValid(kw) THEN NoRes
         ELSE Raise("ValueError", "Please type a prompt in the input box.")
    ELSE IF ClsValid(kw) THEN NoRes
         ELSE Raise("ValueError", "Please choose an image (Browse) first.")

\* The client call the adapter makes: the method, the model id and the payload.
AdapterRequest(k, kw, tok) ==
    [method |-> IF k = 1 THEN "text_to_image" ELSE "image_classification",
     model_id |-> ModelId(k),
     payload |-> IF k = 1 THEN T2IPrompt(kw) ELSE kw,
     auth |-> tok]

\* What the client method returns or raises for a response.
ClientResult(k, r) == IF k = 1 THEN TextToImage(r) ELSE ImageClassification(r)

\* --------------------------------------------------------------- state
VARIABLES
    env,            \* os.getenv("HUGGINGFACEHUB_API_TOKEN", "")
    appToken,       \* TkAIApp._token
    appClient,      \* TkAIApp._client: the identity of an HFClient object
    clientTok,      \* HFClient._token of every client object created so far
    adapterClient,  \* BaseAdapter.client of the two adapters
    lastImage,      \* TkAIApp._last_image
    txtOutput,      \* txt_output: the texts inserted, first line first
    varStatus,      \* var_status
    dialogs,        \* the messages messagebox.showerror has shown
    threads,        \* the worker threads started, in start order
    finishOrder,    \* history: the threads in the order their bodies ended
    lastImgEvent,   \* history: the latest of {successful Browse, Clear}
    overlap,        \* history: a UI action ran while a run was in flight
    uiSinceRun,     \* history: Browse or Clear ran after the first Run click
    clicks,         \* history: the invocations of on_run_model1 / on_run_model2
    ad,             \* an adapter's run() called directly (adapter specification)
    cl,             \* a call of the remote client (client specification)
    pipe,           \* hf_client._T2I_PIPE
    clsProc,        \* hf_client._CLS_PROC
    clsModel,       \* hf_client._CLS_MODEL
    calls,          \* the calls into the local client, in start order
    loads,          \* history: the model loads completed, per handle
    concurrent      \* history: a call began while another used the same handle

guiVars == <<lastImage, txtOutput, varStatus, dialogs, threads,
             finishOrder, lastImgEvent, overlap, uiSinceRun, clicks>>
tokVars == <<env, appToken, appClient, clientTok, adapterClient>>
localVars == <<pipe, clsProc, clsModel, calls, loads, concurrent>>
vars == <<guiVars, tokVars, ad, cl, localVars>>

\* ------------------------------------------------ construction (gui.py __init__)
\* HFClient.__init__: self._token = token or os.getenv(..., "").strip()
HFClientInit(token, e) == OrElse(token, Strip(e))

Adapters == {1, 2}

\* TkAIApp.__init__: _token, _client, then _init_adapters.
TokInit(envs) ==
    /\ env \in envs
    /\ appToken = Strip(env)
    /\ clientTok = <<HFClientInit(Strip(env), env)>>
    /\ appClient = 1
    /\ adapterClient = [k \in Adapters |-> 1]

\* TkAIApp.__init__: the widgets as _build_layout and _load_selected_model_info
\* leave them, and no worker thread.
GuiInit ==
    /\ lastImage = NoImage
    /\ txtOutput = <<>>
    /\ varStatus = "Loaded: Text-to-Image"
    /\ dialogs = {}
    /\ threads = <<>>
    /\ finishOrder = <<>>
    /\ lastImgEvent = "init"
    /\ overlap = FALSE
    /\ uiSinceRun = FALSE
    /\ clicks = 0

NoAd == [kind |-> 0, kw |-> None, pc |-> "idle", warned |-> FALSE,
         calls |-> <<>>, resp |-> NetFail, res |-> NoRes]
NoCl == [kind |-> 0, pc |-> "idle", resp |-> NetFail, res |-> NoRes]

Handles == {"t2i", "cls"}

\* The module globals of the local client, and no call yet.
LocalInit ==
    /\ pipe = "None"
    /\ clsProc = "None"
    /\ clsModel = "None"
    /\ calls = <<>>
    /\ loads = [h \in Handles |-> 0]
    /\ concurrent = [h \in Handles |-> FALSE]

GuiEnvs == {<<>>, <<"h", "f">>}

Init ==
    /\ TokInit(GuiEnvs)
    /\ GuiInit
    /\ ad = NoAd
    /\ cl = NoCl
    /\ LocalInit

\* ----------------------------------------------------- UI handlers (gui.py)
InFlight == {i \in 1..Len(threads) : threads[i].pc # "done"}
Touch == /\ overlap' = (overlap \/ InFlight # {})

\* _set_status(msg)
SetStatus(msg) == varStatus' = msg

Images == {"imgA"}

\* _browse_image with ask_image returning a path whose file decodes to img.
BrowseOk(img) ==
    /\ lastImage' = img
    /\ SetStatus("Image loaded.")
    /\ lastImgEvent' = "browse"
    /\ Touch
    /\ uiSinceRun' = (uiSinceRun \/ threads # <<>>)
    /\ UNCHANGED <<txtOutput, dialogs, threads, finishOrder, clicks>>

\* _browse_image with the dialog cancelled: ask_image returns "" and the
\* handler returns at once.
BrowseCancel ==
    /\ Touch
    /\ UNCHANGED <<lastImage, txtOutput, varStatus, dialogs,
                   threads, finishOrder, lastImgEvent, uiSinceRun, clicks>>

ImageErrorMsg == "cannot identify image file"

\* _browse_image with a path that Image.open cannot read: the except branch.
BrowseError ==
    /\ SetStatus("Image error: " \o ImageErrorMsg)
    /\ dialogs' = dialogs \cup {ImageErrorMsg}
    /\ Touch
    /\ uiSinceRun' = (uiSinceRun \/ threads # <<>>)
    /\ UNCHANGED <<lastImage, txtOutput, threads, finishOrder,
                   lastImgEvent, clicks>>

\* Mutant: the loaded image survives Clear.
ClearIO_KeepsImage ==
    /\ txtOutput' = <<>>
    /\ lastImgEvent' = "clear"
    /\ Touch
    /\ uiSinceRun' = (uiSinceRun \/ threads # <<>>)
    /\ UNCHANGED <<lastImage, varStatus, dialogs, threads, finishOrder, clicks>>

\* _clear_io
ClearIO ==
    /\ txtOutput' = <<>>
    /\ lastImage' = NoImage
    /\ lastImgEvent' = "clear"
    /\ Touch
    /\ uiSinceRun' = (uiSinceRun \/ threads # <<>>)
    /\ UNCHANGED <<varStatus, dialogs, threads, finishOrder, clicks>>

\* ------------------------------------------------- decorators (decorators.py)
NoReq == [method |-> "", model_id |-> "", payload |-> <<>>, auth |-> <<>>]

\* The thread run_in_thread's wrapper creates: Thread(target=fn, daemon=True),
\* its body not yet begun.  kw, reqs, req and res are the body's locals and what
\* it asked of the client; ev is history (lastImgEvent at the click), and so
\* is seen (the image the body's check found loaded).
NewThread(k) ==
    [kind |-> k, pc |-> "status", daemon |-> TRUE, kw |-> <<>>, reqs |-> 0,
     req |-> NoReq, res |-> NoRes, warned |-> FALSE, ev |-> lastImgEvent,
     seen |-> NoImage]

\* Mutant: the thread is created without daemon=True.
RunInThread_NotDaemon(k) ==
    threads' = Append(threads, [NewThread(k) EXCEPT !.daemon = FALSE])

\* run_in_thread's wrapper: t = Thread(...); t.start().  It returns None as soon
\* as the thread is started; what the target raises stays in the thread.
RunInThread(k) == threads' = Append(threads, NewThread(k))
StartResult == NoRes

\* catch_errors' wrapper around a call that returned or raised `r`.
CatchErrors(r) ==
    IF r.ok
    THEN UNCHANGED <<varStatus, dialogs>>
    ELSE /\ SetStatus("Error: " \o r.val)
         /\ dialogs' = dialogs \cup {r.val}

\* on_run_model1 (k = 1) / on_run_model2 (k = 2) as the buttons call them:
\* catch_errors(run_in_thread(body)).
OnRun(k) ==
    /\ clicks < MaxRuns
    /\ clicks' = clicks + 1
    /\ RunInThread(k)
    /\ CatchErrors(StartResult)
    /\ Touch
    /\ UNCHANGED <<lastImage, txtOutput, finishOrder,
                   lastImgEvent, uiSinceRun>>

\* --------------------------------------- the handler bodies, statement by statement
At(i, p) == i \in 1..Len(threads) /\ threads[i].pc = p
Kind(i) == threads[i].kind

\* An exception leaves the body: the thread ends, nothing else is written.
Fail(i, r) ==
    /\ threads' = [threads EXCEPT ![i].pc = "done", ![i].res = r]
    /\ finishOrder' = Append(finishOrder, i)

Goto(i, p) == threads' = [threads EXCEPT ![i].pc = p]

RunningMsg(k) ==
    IF k = 1 THEN "Running Text-to-Image..." ELSE "Running Image Classification..."
DoneMsg(k) == IF k = 1 THEN "Done (Model 1)." ELSE "Done (Model 2)."

\* self._set_status("Running ...")
BodyStatus(i) ==
    /\ At(i, "status")
    /\ SetStatus(RunningMsg(Kind(i)))
    /\ Goto(i, IF Kind(i) = 1 THEN "prompt" ELSE "check")
    /\ UNCHANGED <<lastImage, txtOutput, dialogs, finishOrder,
                   lastImgEvent, overlap, uiSinceRun, clicks>>

\* What the user has typed into txt_input when the body reads it.
InputTexts == {<<>>, <<" ">>, <<"c">>, <<" ", "c", "\t">>}
DefaultPrompt == <<"n", "o", "o", "k">>

\* on_run_model1: prompt = self.txt_input.get("1.0", tk.END).strip() or "A cozy ..."
BodyPrompt(i) ==
    /\ At(i, "prompt")
    /\ \E txt \in InputTexts :
         threads' = [threads EXCEPT ![i].pc = "run",
                                    ![i].kw = OrElse(Strip(txt), DefaultPrompt)]
    /\ UNCHANGED <<lastImage, txtOutput, varStatus, dialogs,
                   finishOrder, lastImgEvent, overlap, uiSinceRun, clicks>>

NoImageMsg == "Please select/load an image (Browse)."

\* on_run_model2: if self._last_image is None: raise RuntimeError(...)
BodyCheck(i) ==
    /\ At(i, "check")
    /\ IF lastImage = NoImage
       THEN Fail(i, Raise("RuntimeError", NoImageMsg))
       ELSE /\ threads' = [threads EXCEPT ![i].pc = "save", ![i].seen = lastImage]
            /\ UNCHANGED finishOrder
    /\ UNCHANGED <<lastImage, txtOutput, varStatus, dialogs,
                   lastImgEvent, overlap, uiSinceRun, clicks>>

\* Image.save(buf, format="PNG"); buf.getvalue()
Png(img) == <<"PNG", img>>

\* on_run_model2: self._last_image.save(buf, format="PNG"), reading the field again.
BodySave(i) ==
    /\ At(i, "save")
    /\ IF lastImage = NoImage
       THEN Fail(i, Raise("AttributeError", "'NoneType' object has no attribute 'save'"))
       ELSE /\ threads' = [threads EXCEPT ![i].pc = "run", ![i].kw = Png(lastImage)]
            /\ UNCHANGED finishOrder
    /\ UNCHANGED <<lastImage, txtOutput, varStatus, dialogs,
                   lastImgEvent, overlap, uiSinceRun, clicks>>

\* adapter.run(...): require_token's wrapper, the adapter's validation and the
\* client's requests.post, with the token of the client the adapter holds now.
BodyRun(i) ==
    /\ At(i, "run")
    /\ LET k == Kind(i)
           warns == RequireTokenWarns(AdapterAttrs, <<>>)
           v == AdapterValidate(k, threads[i].kw)
       IN /\ IF warns THEN SetStatus(NoTokenWarning) ELSE UNCHANGED varStatus
          /\ IF v.ok
             THEN /\ threads' = [threads EXCEPT
                        ![i].pc = "wait",
                        ![i].warned = warns,
                        ![i].reqs = @ + 1,
                        ![i].req = AdapterRequest(k, threads[i].kw,
                                                  clientTok[adapterClient[k]])]
                  /\ UNCHANGED finishOrder
             ELSE /\ threads' = [threads EXCEPT ![i].pc = "done", ![i].res = v,
                                                ![i].warned = warns]
                  /\ finishOrder' = Append(finishOrder, i)
    /\ UNCHANGED <<lastImage, txtOutput, dialogs,
                   lastImgEvent, overlap, uiSinceRun, clicks>>

\* The responses the endpoint gives in the GUI specification.
GuiResponses ==
    { [status |-> 200, ctype |-> <<"image", "png">>, body |-> "png"],
      [status |-> 403, ctype |-> <<"application", "json">>, body |-> "json_error"],
      [status |-> 200, ctype |-> <<"application", "json">>, body |-> "json_list"],
      NetFail }

\* Mutant: a failed request is issued again.
BodyResponse_Retry(i) ==
    /\ At(i, "wait")
    /\ \E r \in GuiResponses :
         LET res == ClientResult(Kind(i), r)
         IN threads' = [threads EXCEPT ![i].pc = IF res.ok THEN "outdel" ELSE "run",
                                       ![i].res = res]
    /\ UNCHANGED <<lastImage, txtOutput, varStatus, dialogs, finishOrder,
                   lastImgEvent, overlap, uiSinceRun, clicks>>

\* The client method returns or raises; an exception ends the body.
BodyResponse(i) ==
    /\ At(i, "wait")
    /\ \E r \in GuiResponses :
         LET res == ClientResult(Kind(i), r)
         IN IF res.ok
            THEN /\ threads' = [threads EXCEPT
                       ![i].pc = "outdel",
                       ![i].res = res]
                 /\ UNCHANGED finishOrder
            ELSE Fail(i, res)
    /\ UNCHANGED <<lastImage, txtOutput, varStatus, dialogs,
                   lastImgEvent, overlap, uiSinceRun, clicks>>

\* self.txt_output.delete("1.0", tk.END)
BodyOutDel(i) ==
    /\ At(i, "outdel")
    /\ txtOutput' = <<>>
    /\ Goto(i, "outins")
    /\ UNCHANGED <<lastImage, varStatus, dialogs, finishOrder,
                   lastImgEvent, overlap, uiSinceRun, clicks>>

T2IDoneText == "Text-to-Image completed. Preview updated."
\* The text a run inserts into txt_output.
OutText(t) == IF t.kind = 1 THEN T2IDoneText ELSE t.res.val

\* self.txt_output.insert("1.0", ...): the text goes in front of what is there.
BodyOutIns(i) ==
    /\ At(i, "outins")
    /\ txtOutput' = <<OutText(threads[i])>> \o txtOutput
    /\ Goto(i, "final")
    /\ UNCHANGED <<lastImage, varStatus, dialogs, finishOrder,
                   lastImgEvent, overlap, uiSinceRun, clicks>>

\* Mutant: the body ends without its last status write.
BodyFinal_Silent(i) ==
    /\ At(i, "final")
    /\ Goto(i, "done")
    /\ finishOrder' = Append(finishOrder, i)
    /\ UNCHANGED <<lastImage, txtOutput, varStatus, dialogs,
                   lastImgEvent, overlap, uiSinceRun, clicks>>

\* self._set_status("Done (Model k)."), the body's last statement.
BodyFinal(i) ==
    /\ At(i, "final")
    /\ SetStatus(DoneMsg(Kind(i)))
    /\ Goto(i, "done")
    /\ finishOrder' = Append(finishOrder, i)
    /\ UNCHANGED <<lastImage, txtOutput, dialogs,
                   lastImgEvent, overlap, uiSinceRun, clicks>>

Threads == 1..MaxRuns

GuiNext ==
    \/ \E img \in Images : BrowseOk(img)
    \/ BrowseCancel
    \/ BrowseError
    \/ ClearIO
    \/ \E k \in Adapters : OnRun(k)
    \/ \E i \in Threads : BodyStatus(i)
    \/ \E i \in Threads : BodyPrompt(i)
    \/ \E i \in Threads : BodyCheck(i)
    \/ \E i \in Threads : BodySave(i)
    \/ \E i \in Threads : BodyRun(i)
    \/ \E i \in Threads : BodyResponse(i)
    \/ \E i \in Threads : BodyOutDel(i)
    \/ \E i \in Threads : BodyOutIns(i)
    \/ \E i \in Threads : BodyFinal(i)

Next == GuiNext /\ UNCHANGED <<tokVars, ad, cl, localVars>>

Spec == Init /\ [][Next]_vars

\* ------------------------------------------------------------ the Run handlers
Started == 1..Len(threads)
Failed(i) == threads[i].pc = "done" /\ ~threads[i].res.ok
Succeeded(i) == threads[i].pc = "done" /\ threads[i].res.ok
\* The adapter's run() has been entered by thread i.
RanAdapter(i) ==
    \/ threads[i].reqs > 0
    \/ Failed(i) /\ threads[i].res.exc = "ValueError"
LastFinished == finishOrder[Len(finishOrder)]
\* Every run started has run to its end without an exception, and neither
\* Browse nor Clear has touched the display since the first click.
AllRunsCompleted ==
    /\ threads # <<>>
    /\ \A i \in Started : Succeeded(i)
    /\ ~uiSinceRun

\* C1: every failure of a run is reported by catch_errors: an error dialog shows
\* the failure's message (and the status line is set to "Error: <message>", the
\* status of the latest failure when nothing was written after it).
C1_FailuresReported ==
    \A i \in Started :
        Failed(i) =>
            /\ threads[i].res.val \in dialogs
            /\ (InFlight = {} /\ LastFinished = i /\ ~uiSinceRun)
                   => varStatus = "Error: " \o threads[i].res.val

\* C2: each invocation of a Run handler starts exactly one daemon thread, whose
\* body has not run a statement when the invocation returns; the threads
\* started before are left as they are.
C2_OneDaemonThreadPerClick ==
    [][clicks' = clicks + 1 =>
          /\ Len(threads') = Len(threads) + 1
          /\ SubSeq(threads', 1, Len(threads)) = threads
          /\ threads'[Len(threads')].daemon
          /\ threads'[Len(threads')].pc = "status"]_vars

\* A second click was accepted while the first body waits for its response.
C2_Witness ==
    /\ Len(threads) = 2
    /\ threads[1].pc = "wait"
    /\ threads[2].pc = "status"
    /\ threads[2].daemon

C4_NoRetry ==
    \A i \in Started :
        /\ threads[i].reqs <= 1
        /\ (threads[i].reqs = 1 /\ ~threads[i].res.ok) => threads[i].pc = "done"

\* A request failed with an HTTP error and the run ended after its one request.
C4_Witness ==
    \E i \in Started :
        /\ Failed(i)
        /\ threads[i].res.exc = "HTTPError"
        /\ threads[i].reqs = 1

\* C8: a run of an adapter writes the no-token warning to the status line
\* exactly when no token is set.
C8_WarnsIffNoToken ==
    \A i \in Started :
        RanAdapter(i) => (threads[i].warned <=> appToken = <<>>)

\* C10: with the actions executed one at a time, an image is loaded exactly
\* when the latest of {successful Browse, Clear} is a successful Browse (so a
\* cancelled Browse changes nothing), Run Model 2 makes a request only if an
\* image was loaded at its click, and otherwise fails with the Browse message
\* without a request.
C10_RequestOnlyWithImage ==
    /\ (lastImage # NoImage) <=> (lastImgEvent = "browse")
    /\ ~overlap =>
         \A i \in Started :
            threads[i].kind = 2 =>
              /\ threads[i].reqs >= 1 => threads[i].ev = "browse"
              /\ (threads[i].pc = "done" /\ threads[i].ev # "browse") =>
                    /\ threads[i].res = Raise("RuntimeError", NoImageMsg)
                    /\ threads[i].reqs = 0

\* Run Model 2 after Clear failed without a request; after a later Browse it
\* made its request.
C10_Witness ==
    /\ ~overlap
    /\ Len(threads) = 2
    /\ threads[1].kind = 2 /\ threads[1].ev = "clear" /\ Failed(1)
    /\ threads[1].res.val = NoImageMsg /\ threads[1].reqs = 0
    /\ threads[2].kind = 2 /\ threads[2].ev = "browse" /\ threads[2].reqs = 1
    /\ threads[2].pc = "done"

\* --------------------------------------------------- the token (gui.py 59-68)
\* TkAIApp.token's setter: strip, a new HFClient, every adapter pointed at it.
TokenSetter(value) ==
    /\ appToken' = Strip(OrElse(value, <<>>))
    /\ clientTok' = Append(clientTok, HFClientInit(appToken', env))
    /\ appClient' = Len(clientTok) + 1
    /\ adapterClient' = [k \in Adapters |-> appClient']

\* What the user can enter in the token dialog, or assign to the property.
TokenInputs == {<<>>, <<" ">>, <<"t">>, <<" ", "t", " ">>, <<"u">>, <<"\t", "w">>}

\* _set_token_dialog with askstring returning value (None: the dialog was cancelled).
SetTokenDialog(value) ==
    /\ Len(clientTok) < MaxClients
    /\ IF value # None
       THEN TokenSetter(value) /\ SetStatus("Token saved for this session.")
       ELSE UNCHANGED <<appToken, clientTok, appClient, adapterClient, varStatus>>
    /\ UNCHANGED env

\* app.token = value, the property assigned directly (None included).
AssignToken(value) ==
    /\ Len(clientTok) < MaxClients
    /\ TokenSetter(value)
    /\ UNCHANGED <<env, varStatus>>

TokEnvs == {<<>>, <<"h", "f">>, <<" ", "h", "f">>, <<" ">>}

InitToken ==
    /\ TokInit(TokEnvs)
    /\ GuiInit
    /\ ad = NoAd
    /\ cl = NoCl
    /\ LocalInit

NextToken ==
    /\ \/ \E v \in TokenInputs \cup {None} : SetTokenDialog(v)
       \/ \E v \in TokenInputs \cup {None} : AssignToken(v)
    /\ UNCHANGED <<lastImage, txtOutput, dialogs, threads, finishOrder,
                   lastImgEvent, overlap, uiSinceRun, clicks, ad, cl, localVars>>

SpecToken == InitToken /\ [][NextToken]_vars

\* C5: every adapter holds the app's current client, and that client's token
\* is the app's token.
C5_ClientTokenIsAppToken ==
    /\ \A k \in Adapters : adapterClient[k] = appClient
    /\ clientTok[appClient] = appToken

\* ------------------------------------------------ local client (hf_client.py)
Calls == 1..MaxCalls
CallAt(c, h, p) == c \in 1..Len(calls) /\ calls[c].h = h /\ calls[c].pc = p
CallGoto(c, p) == calls' = [calls EXCEPT ![c].pc = p]
CallsInFlight(h) == {c \in 1..Len(calls) : calls[c].h = h /\ calls[c].pc # "done"}
LoadError == Raise("OSError", "cannot load the model")

\* A thread calls HFClient.text_to_image ("t2i") or image_classification ("cls").
LocalCall(h) ==
    /\ Len(calls) < MaxCalls
    /\ calls' = Append(calls, [h |-> h, pc |-> "check", res |-> NoRes])
    /\ concurrent' = [concurrent EXCEPT ![h] = @ \/ CallsInFlight(h) # {}]
    /\ UNCHANGED <<pipe, clsProc, clsModel, loads>>

\* Mutant: the cached handle is never consulted.
T2ICheck_AlwaysLoads(c) ==
    /\ CallAt(c, "t2i", "check")
    /\ CallGoto(c, "load")
    /\ UNCHANGED <<pipe, clsProc, clsModel, loads, concurrent>>

\* _get_t2i_pipe: if _T2I_PIPE is None
T2ICheck(c) ==
    /\ CallAt(c, "t2i", "check")
    /\ CallGoto(c, IF pipe = "None" THEN "load" ELSE "use")
    /\ UNCHANGED <<pipe, clsProc, clsModel, loads, concurrent>>

\* _get_t2i_pipe: _T2I_PIPE = DiffusionPipeline.from_pretrained(...).to(device),
\* or the exception from_pretrained raises, which leaves the handle as it was.
T2ILoad(c) ==
    /\ CallAt(c, "t2i", "load")
    /\ \/ /\ pipe' = "pipeline"
          /\ loads' = [loads EXCEPT !["t2i"] = @ + 1]
          /\ CallGoto(c, "use")
       \/ /\ calls' = [calls EXCEPT ![c].pc = "done", ![c].res = LoadError]
          /\ UNCHANGED <<pipe, loads>>
    /\ UNCHANGED <<clsProc, clsModel, concurrent>>

\* text_to_image: out = pipe(prompt, ...); return out.images[0]
T2IUse(c) ==
    /\ CallAt(c, "t2i", "use")
    /\ calls' = [calls EXCEPT ![c].pc = "done", ![c].res = Ok("generated image")]
    /\ UNCHANGED <<pipe, clsProc, clsModel, loads, concurrent>>

\* image_classification: if _CLS_PROC is None or _CLS_MODEL is None
ClsCheck(c) ==
    /\ CallAt(c, "cls", "check")
    /\ CallGoto(c, IF clsProc = "None" \/ clsModel = "None" THEN "loadproc" ELSE "use")
    /\ UNCHANGED <<pipe, clsProc, clsModel, loads, concurrent>>

\* _CLS_PROC = AutoImageProcessor.from_pretrained(model_id), or its exception.
ClsLoadProc(c) ==
    /\ CallAt(c, "cls", "loadproc")
    /\ \/ /\ clsProc' = "processor"
          /\ CallGoto(c, "loadmodel")
       \/ /\ calls' = [calls EXCEPT ![c].pc = "done", ![c].res = LoadError]
          /\ UNCHANGED clsProc
    /\ UNCHANGED <<pipe, clsModel, loads, concurrent>>

\* _CLS_MODEL = AutoModelForImageClassification.from_pretrained(model_id);
\* _CLS_MODEL.eval(); or the exception from_pretrained raises.
ClsLoadModel(c) ==
    /\ CallAt(c, "cls", "loadmodel")
    /\ \/ /\ clsModel' = "model"
          /\ loads' = [loads EXCEPT !["cls"] = @ + 1]
          /\ CallGoto(c, "use")
       \/ /\ calls' = [calls EXCEPT ![c].pc = "done", ![c].res = LoadError]
          /\ UNCHANGED <<clsModel, loads>>
    /\ UNCHANGED <<pipe, clsProc, concurrent>>

\* image_classification: the processor and the model applied to the image.
ClsUse(c) ==
    /\ CallAt(c, "cls", "use")
    /\ calls' = [calls EXCEPT ![c].pc = "done", ![c].res = Ok("labels")]
    /\ UNCHANGED <<pipe, clsProc, clsModel, loads, concurrent>>

NextLocal ==
    /\ \/ \E h \in Handles : LocalCall(h)
       \/ \E c \in Calls : T2ICheck(c)
       \/ \E c \in Calls : T2ILoad(c)
       \/ \E c \in Calls : T2IUse(c)
       \/ \E c \in Calls : ClsCheck(c)
       \/ \E c \in Calls : ClsLoadProc(c)
       \/ \E c \in Calls : ClsLoadModel(c)
       \/ \E c \in Calls : ClsUse(c)
    /\ UNCHANGED <<guiVars, tokVars, ad, cl>>

SpecLocal == Init /\ [][NextLocal]_vars

ClientPost(k, r) ==
    /\ cl.pc \in {"idle", "returned"}
    /\ cl' = [kind |-> k, pc |-> "posted", resp |-> r, res |-> NoRes]

\* The method works through the response and returns or raises.
ClientReturn ==
    /\ cl.pc = "posted"
    /\ cl' = [cl EXCEPT !.pc = "returned", !.res = ClientResult(cl.kind, cl.resp)]

NextClient ==
    /\ \/ \E k \in Adapters : \E r \in Responses \cup {NetFail} : ClientPost(k, r)
       \/ ClientReturn
    /\ UNCHANGED <<guiVars, tokVars, ad, localVars>>

SpecClient == Init /\ [][NextClient]_vars

\* A text_to_image call has returned or raised for a response that arrived.
T2IReturned == cl.pc = "returned" /\ cl.kind = 1 /\ cl.resp.status # 0
Success(st) == st >= 200 /\ st < 300
ErrorTextOf(b) == IF b = "json_error" THEN "Model is loading" ELSE ""

\* C7 as stated: an image only for a success status with an image content-type;
\* 403 raises the gated-model RuntimeError, any other non-success status the
\* HTTP error, and a success response that is not an image a RuntimeError with
\* the JSON body's 'error' text, or the unknown-error text when it is not JSON.
C7_ImageOrStatedError ==
    T2IReturned =>
        LET r == cl.resp
            res == cl.res
        IN /\ res.ok => (Success(r.status) /\ StartsWithImage(r.ctype))
           /\ ~(Success(r.status) /\ StartsWithImage(r.ctype)) => ~res.ok
           /\ r.status = 403 => res = Raise("RuntimeError", GatedMsg)
           /\ (~Success(r.status) /\ r.status # 403) => res.exc = "HTTPError"
           /\ (Success(r.status) /\ ~StartsWithImage(r.ctype)) =>
                 res = Raise("RuntimeError",
                             IF IsJson(r.body) THEN ErrorTextOf(r.body) ELSE UnknownMsg)

\* C7 amended: an image only for a status below 400 with an image content-type
\* (and then only when the body decodes); 403 raises the gated-model
\* RuntimeError, any other 4xx/5xx status the HTTP error; a response that passes
\* the status check and is not an image raises RuntimeError with the body's
\* 'error' text when the body is a JSON object with a non-empty 'error', with
\* the printed object when it is a JSON object without one, with the
\* unknown-error text when it is not JSON, and AttributeError when the JSON body
\* is not an object.
C7_ImageOrError ==
    T2IReturned =>
        LET r == cl.resp
            res == cl.res
            passes == r.status < 400
        IN /\ res.ok <=> (passes /\ StartsWithImage(r.ctype) /\ r.body = "png")
           /\ r.status = 403 => res = Raise("RuntimeError", GatedMsg)
           /\ (r.status >= 400 /\ r.status # 403) => res.exc = "HTTPError"
           /\ (passes /\ ~StartsWithImage(r.ctype)) =>
                 CASE r.body = "json_error" ->
                        res = Raise("RuntimeError", "Model is loading")
                   [] r.body = "json_noerror" ->
                        res = Raise("RuntimeError", "{'estimated_time': 20}")
                   [] r.body = "json_emptyerror" ->
                        res = Raise("RuntimeError", "{'error': ''}")
                   [] r.body \in {"json_list", "json_emptylist"} ->
                        res.exc = "AttributeError"
                   [] OTHER -> res = Raise("RuntimeError", UnknownMsg)

\* A success response whose JSON body is a list of labels: no RuntimeError.
C7_Witness ==
    /\ T2IReturned
    /\ cl.resp = [status |-> 200, ctype |-> <<"application", "json">>,
                  body |-> "json_list"]
    /\ cl.res.exc = "AttributeError"

\* ------------------------------------------------- an adapter, called directly
T2IKwargs == {None, <<>>, <<" ">>, <<"\t", " ">>, <<"c">>, <<" ", "c", "\t">>}
ClsKwargs == {None, <<>>, Png("imgA")}

\* adapter.run(prompt=kw) (k = 1) or adapter.run(image_bytes=kw) (k = 2);
\* kw = None: called without the keyword.
AdapterCall(k, kw) ==
    /\ ad.pc \in {"idle", "done"}
    /\ ad' = [NoAd EXCEPT !.kind = k, !.kw = kw, !.pc = "called"]

\* require_token's wrapper, then run: the validation, then the client call.
AdapterRun ==
    /\ ad.pc = "called"
    /\ LET warns == RequireTokenWarns(AdapterAttrs, <<>>)
           v == AdapterValidate(ad.kind, ad.kw)
       IN /\ IF warns THEN SetStatus(NoTokenWarning) ELSE UNCHANGED varStatus
          /\ IF v.ok
             THEN ad' = [ad EXCEPT
                     !.pc = "wait", !.warned = warns,
                     !.calls = Append(@, AdapterRequest(ad.kind, ad.kw,
                                            clientTok[adapterClient[ad.kind]]))]
             ELSE ad' = [ad EXCEPT !.pc = "done", !.warned = warns, !.res = v]

\* The client method returns or raises, and run passes that on.
AdapterReturn ==
    /\ ad.pc = "wait"
    /\ \E r \in Responses \cup {NetFail} :
         ad' = [ad EXCEPT !.pc = "done", !.resp = r,
                          !.res = ClientResult(ad.kind, r)]
    /\ UNCHANGED varStatus

NextAdapter ==
    /\ \/ \E kw \in T2IKwargs : AdapterCall(1, kw) /\ UNCHANGED varStatus
       \/ \E kw \in ClsKwargs : AdapterCall(2, kw) /\ UNCHANGED varStatus
       \/ AdapterRun
       \/ AdapterReturn
    /\ UNCHANGED <<lastImage, txtOutput, dialogs, threads, finishOrder,
                   lastImgEvent, overlap, uiSinceRun, clicks, tokVars, cl, localVars>>

SpecAdapter == Init /\ [][NextAdapter]_vars

\* The input the adapter must refuse: no prompt, or only whitespace; no bytes.
Blank(kw) == kw = None \/ \A n \in 1..Len(kw) : kw[n] \in Whitespace
Refused(k, kw) == IF k = 1 THEN Blank(kw) ELSE kw \in {None, <<>>}

\* C9: run refuses missing, empty or whitespace-only input with ValueError
\* before any client call; otherwise it makes exactly one call of its own
\* method with its own model id and returns what the client returned or raised.
C9_ValidateBeforeCall ==
    ad.pc = "done" =>
        IF Refused(ad.kind, ad.kw)
        THEN ad.res.exc = "ValueError" /\ ad.calls = <<>>
        ELSE /\ Len(ad.calls) = 1
             /\ ad.calls[1].model_id = ModelId(ad.kind)
             /\ ad.calls[1].method =
                    (IF ad.kind = 1 THEN "text_to_image" ELSE "image_classification")
             /\ ad.res = ClientResult(ad.kind, ad.resp)

\* A whitespace-only prompt was refused without a call.
C9_Witness ==
    /\ ad.pc = "done"
    /\ ad.kind = 1
    /\ ad.kw = <<"\t", " ">>
    /\ ad.res.exc = "ValueError"
    /\ ad.calls = <<>>

\* -------------------------------------------- Run Model 2 against Clear and Browse
\* The body of thread i is past its `self._last_image is None` check.
PassedCheck(i) == threads[i].kind = 2 /\ threads[i].seen # NoImage

\* C11: a Run Model 2 body that has passed its check encodes the image the
\* check found, whatever the UI thread does meanwhile: it does not end on a
\* missing image, and what it hands to the adapter is that image's PNG.
C11_CheckedImageIsSent ==
    \A i \in Started :
        (PassedCheck(i) /\ threads[i].pc # "save") =>
            /\ ~(Failed(i) /\ threads[i].res.exc = "AttributeError")
            /\ threads[i].kw = Png(threads[i].seen)

====
